---- MODULE Spec2Model ----
(***************************************************************************)
(* Model of the multiply-add functions of src/main.rs (rustops).           *)
(*                                                                         *)
(* The functions are pure; the only state is the benchmark driver's: the   *)
(* operands it holds, the function it called last and what that call       *)
(* produced.  Each function is an operator translated statement by         *)
(* statement; each action of the state machine is one call f(a, b, c) of   *)
(* main's benchmark loop.                                                  *)
(*                                                                         *)
(* Widths.  TLC's integers are 32 bits wide, so the machine word sizes are *)
(* scaled: HalfBits model bits stand for the 32 bits of the source, and    *)
(* every width of the source keeps its proportion (u64 = 2 halves, u128 =  *)
(* 4 halves, U256 = two u128 limbs).  Every shift amount and mask of the   *)
(* source is expressed through Bits32 / Bits64 / Bits128, so the code's    *)
(* structure (which operation is done in which type, what wraps, what is   *)
(* or-ed and what is added) is kept exactly.                               *)
(*                                                                         *)
(* Overflow.  A plain +, - or * of Rust panics when overflow checks are on *)
(* (debug profile) and wraps when they are off (release profile).  The     *)
(* variable overflow_checks is the profile the program was built with;     *)
(* wrapping_* / overflowing_* methods and shifts never panic.              *)
(***************************************************************************)
EXTENDS Integers, FiniteSets, Sequences, TLC

\* Number of model bits that stand for 32 bits of the source.
HalfBits == 2

Bits32 == HalfBits
Bits64 == 2 * Bits32
Bits128 == 2 * Bits64

\* 2^64 and 2^128 of the source (number of values of u64 / u128).
Pow64 == 2 ^ Bits64
Pow128 == 2 ^ Bits128

\* MASK32 of karatsuba_multiply_add, MASK64 of karatsuba_multiply_add_128.
MASK32 == (2 ^ Bits32) - 1
MASK64 == (2 ^ Bits64) - 1

----------------------------------------------------------------------------
(* Primitive integer operations of the target.                             *)

\* The value an unsigned type of w bits keeps of the mathematical value v.
Wrap(v, w) == v % (2 ^ w)

\* Does the mathematical value v lie in the range of an unsigned w-bit type?
Fits(v, w) == v >= 0 /\ v < 2 ^ w

\* x & mask, for a mask of the form 2^k - 1.
BitAnd(x, mask) == x % (mask + 1)

\* x >> k.
Shr(x, k) == x \div (2 ^ k)

\* x << k in an unsigned type of w bits: bits shifted out are dropped.
Shl(x, k, w) == (x * (2 ^ k)) % (2 ^ w)

\* p | q.
RECURSIVE BitOr(_, _)
BitOr(p, q) ==
    IF p = 0 THEN q
    ELSE IF q = 0 THEN p
    ELSE (IF p % 2 = 1 \/ q % 2 = 1 THEN 1 ELSE 0) + 2 * BitOr(p \div 2, q \div 2)

\* (cond) as u128, if cond { 1 } else { 0 }.
AsU128(cond) == IF cond THEN 1 ELSE 0

----------------------------------------------------------------------------
(* The multiply-add functions.  Each returns a record: ret is the value    *)
(* returned when every plain operation wraps, ovf tells whether some plain *)
(* +, - or * left the range of its type (a panic under overflow checks),   *)
(* and the remaining fields are the function's locals.                     *)

\* Variant of compiler_optimized_multiply_add that multiplies before
\* widening: (a * b) as u128 + c as u128.
compiler_optimized_multiply_add_narrow(a, b, c) ==
    LET prod == a * b
        sum  == Wrap(prod, Bits64) + c
    IN  [ret |-> Wrap(sum, Bits128),
         ovf |-> ~Fits(prod, Bits64) \/ ~Fits(sum, Bits128)]

\* (a as u128 * b as u128) + c as u128
compiler_optimized_multiply_add(a, b, c) ==
    LET prod == a * b
        sum  == Wrap(prod, Bits128) + c
    IN  [ret |-> Wrap(sum, Bits128),
         ovf |-> ~Fits(prod, Bits128) \/ ~Fits(sum, Bits128)]

compiler_optimized_multiply_add_128(a, b, c) ==
    LET low  == Wrap(Wrap(a * b, Bits128) + c, Bits128)
        t1   == Wrap(Shr(a, Bits64) * b, Bits128)
        t2   == Wrap(BitAnd(a, MASK64) * Shr(b, Bits64), Bits128)
        sum  == t1 + t2
        high == Wrap(Wrap(sum, Bits128) + AsU128(low < c), Bits128)
    IN  [ret |-> <<low, high>>,
         ovf |-> ~Fits(sum, Bits128)]

compiler_optimized_multiply_add_256(a, b, c) ==
    LET a_low  == a[1]
        a_high == a[2]
        b_low  == b[1]
        b_high == b[2]
        c_low  == c[1]
        c_high == c[2]
        mul_ll == Wrap(a_low * b_low, Bits128)
        mul_lh == Wrap(a_low * b_high, Bits128)
        mul_hl == Wrap(a_high * b_low, Bits128)
        mul_hh == Wrap(a_high * b_high, Bits128)
        mid0   == Wrap(mul_lh + mul_hl, Bits128)
        mid    == Wrap(mid0 + Shr(mul_ll, Bits64), Bits128)
        carry  == ~Fits(mid0 + Shr(mul_ll, Bits64), Bits128)
        high0  == Wrap(Wrap(mul_hh + Shr(mid, Bits64), Bits128) + AsU128(carry), Bits128)
        low    == Wrap(Wrap(mul_ll + Shl(mid, Bits64, Bits128), Bits128) + c_low, Bits128)
        high   == Wrap(Wrap(high0 + c_high, Bits128) + AsU128(low < c_low), Bits128)
    IN  [ret |-> <<low, high>>,
         ovf |-> FALSE]

\* Variant of karatsuba_multiply_add that forms the middle product in u64:
\* ((x0 + x1) * (y0 + y1)) as u128 - z0 - z2.
karatsuba_multiply_add_z1_u64(x, y, z) ==
    LET x0   == BitAnd(x, MASK32)
        x1   == Shr(x, Bits32)
        y0   == BitAnd(y, MASK32)
        y1   == Shr(y, Bits32)
        z0   == Wrap(x0 * y0, Bits128)
        z2   == Wrap(x1 * y1, Bits128)
        sx   == Wrap(x0 + x1, Bits64)
        sy   == Wrap(y0 + y1, Bits64)
        prod == Wrap(sx * sy, Bits64)
        d0   == Wrap(prod - z0, Bits128)
        z1   == Wrap(d0 - z2, Bits128)
        s    == Wrap(z0 + z, Bits128)
    IN  [ret |-> BitOr(BitOr(Shl(z2, Bits64, Bits128), Shl(z1, Bits32, Bits128)), s),
         ovf |-> \/ ~Fits(x0 * y0, Bits128)
                 \/ ~Fits(x1 * y1, Bits128)
                 \/ ~Fits(x0 + x1, Bits64)
                 \/ ~Fits(y0 + y1, Bits64)
                 \/ ~Fits(sx * sy, Bits64)
                 \/ ~Fits(prod - z0, Bits128)
                 \/ ~Fits(d0 - z2, Bits128)
                 \/ ~Fits(z0 + z, Bits128),
         x0 |-> x0, x1 |-> x1, y0 |-> y0, y1 |-> y1,
         z0 |-> z0, z1 |-> z1, z2 |-> z2]

karatsuba_multiply_add(x, y, z) ==
    LET x0   == BitAnd(x, MASK32)
        x1   == Shr(x, Bits32)
        y0   == BitAnd(y, MASK32)
        y1   == Shr(y, Bits32)
        z0   == Wrap(x0 * y0, Bits128)
        z2   == Wrap(x1 * y1, Bits128)
        sx   == Wrap(x0 + x1, Bits64)
        sy   == Wrap(y0 + y1, Bits64)
        prod == Wrap(sx * sy, Bits128)
        d0   == Wrap(prod - z0, Bits128)
        z1   == Wrap(d0 - z2, Bits128)
        s    == Wrap(z0 + z, Bits128)
    IN  [ret |-> BitOr(BitOr(Shl(z2, Bits64, Bits128), Shl(z1, Bits32, Bits128)), s),
         ovf |-> \/ ~Fits(x0 * y0, Bits128)
                 \/ ~Fits(x1 * y1, Bits128)
                 \/ ~Fits(x0 + x1, Bits64)
                 \/ ~Fits(y0 + y1, Bits64)
                 \/ ~Fits(sx * sy, Bits128)
                 \/ ~Fits(prod - z0, Bits128)
                 \/ ~Fits(d0 - z2, Bits128)
                 \/ ~Fits(z0 + z, Bits128),
         x0 |-> x0, x1 |-> x1, y0 |-> y0, y1 |-> y1,
         z0 |-> z0, z1 |-> z1, z2 |-> z2]

\* Variant of karatsuba_multiply_add_128 that adds the middle term into low
\* without shifting it: z0.wrapping_add(z1).wrapping_add(z).
karatsuba_multiply_add_128_unshifted(x, y, z) ==
    LET x0   == BitAnd(x, MASK64)
        x1   == Shr(x, Bits64)
        y0   == BitAnd(y, MASK64)
        y1   == Shr(y, Bits64)
        z0   == Wrap(x0 * y0, Bits128)
        z2   == Wrap(x1 * y1, Bits128)
        sx   == Wrap(x0 + x1, Bits128)
        sy   == Wrap(y0 + y1, Bits128)
        prod == Wrap(sx * sy, Bits128)
        d0   == Wrap(prod - z0, Bits128)
        z1   == Wrap(d0 - z2, Bits128)
        low  == Wrap(Wrap(z0 + z1, Bits128) + z, Bits128)
        high == Wrap(Wrap(z2 + Shr(z1, Bits64), Bits128) + AsU128(low < z0), Bits128)
    IN  [ret |-> <<low, high>>,
         ovf |-> \/ ~Fits(x0 * y0, Bits128)
                 \/ ~Fits(x1 * y1, Bits128)
                 \/ ~Fits(x0 + x1, Bits128)
                 \/ ~Fits(y0 + y1, Bits128)
                 \/ ~Fits(sx * sy, Bits128)
                 \/ ~Fits(prod - z0, Bits128)
                 \/ ~Fits(d0 - z2, Bits128),
         z0 |-> z0, z1 |-> z1, z2 |-> z2]

karatsuba_multiply_add_128(x, y, z) ==
    LET x0   == BitAnd(x, MASK64)
        x1   == Shr(x, Bits64)
        y0   == BitAnd(y, MASK64)
        y1   == Shr(y, Bits64)
        z0   == Wrap(x0 * y0, Bits128)
        z2   == Wrap(x1 * y1, Bits128)
        sx   == Wrap(x0 + x1, Bits128)
        sy   == Wrap(y0 + y1, Bits128)
        prod == Wrap(sx * sy, Bits128)
        d0   == Wrap(prod - z0, Bits128)
        z1   == Wrap(d0 - z2, Bits128)
        low  == Wrap(Wrap(z0 + Shl(z1, Bits64, Bits128), Bits128) + z, Bits128)
        high == Wrap(Wrap(z2 + Shr(z1, Bits64), Bits128) + AsU128(low < z0), Bits128)
    IN  [ret |-> <<low, high>>,
         ovf |-> \/ ~Fits(x0 * y0, Bits128)
                 \/ ~Fits(x1 * y1, Bits128)
                 \/ ~Fits(x0 + x1, Bits128)
                 \/ ~Fits(y0 + y1, Bits128)
                 \/ ~Fits(sx * sy, Bits128)
                 \/ ~Fits(prod - z0, Bits128)
                 \/ ~Fits(d0 - z2, Bits128),
         z0 |-> z0, z1 |-> z1, z2 |-> z2]

karatsuba_multiply_add_256(x, y, z) ==
    LET x0  == x[1]
        x1  == x[2]
        y0  == y[1]
        y1  == y[2]
        r0  == karatsuba_multiply_add_128(x0, y0, z[1])
        r2  == karatsuba_multiply_add_128(x1, y1, 0)
        r1  == karatsuba_multiply_add_128(Wrap(x0 + x1, Bits128), Wrap(y0 + y1, Bits128), 0)
        z0_low  == r0.ret[1]
        z0_high == r0.ret[2]
        z2_low  == r2.ret[1]
        z2_high == r2.ret[2]
        z1_low  == Wrap(Wrap(r1.ret[1] - z0_low, Bits128) - z2_low, Bits128)
        z1_high == Wrap(Wrap(r1.ret[2] - z0_high, Bits128) - z2_high, Bits128)
        low  == Wrap(z0_low + z1_low, Bits128)
        high == Wrap(Wrap(Wrap(z0_high + z1_high, Bits128) + z2_low, Bits128) + z[2], Bits128)
    IN  [ret |-> <<low, high>>,
         ovf |-> r0.ovf \/ r2.ovf \/ r1.ovf]

----------------------------------------------------------------------------
(* The driver: main builds three operands of one width and hands them to   *)
(* benchmark, which calls f(a, b, c).                                      *)

VARIABLES
    overflow_checks,  \* build profile: TRUE when plain arithmetic is checked
    ty,               \* operand type of this benchmark group: "u64", "u128", "U256"
    a, b, c,          \* the operands main passes to benchmark
    called,           \* the function benchmark called last, "none" before any call
    result,           \* [panicked, val]: how that call ended and what it returned
    frame             \* the locals of that call at its return

vars == <<overflow_checks, ty, a, b, c, called, result, frame>>

\* Operand values the functions are exercised on.  u64 multiplicands are
\* exhaustive; the wider types take every combination of boundary limbs.
BoundaryU64 == {0, 1, MASK32, MASK32 + 1, Pow64 \div 2, Pow64 - MASK32 - 1, Pow64 - 1}
AllU64 == 0 .. (Pow64 - 1)
LimbsU64 == {0, 1, Pow64 \div 2, Pow64 - 1}
SampleU128 == {lo + hi * Pow64 : lo \in LimbsU64, hi \in LimbsU64}
LimbsU128 == {0, 1, Pow64, Pow128 - 1}
SampleU256 == {<<lo, hi>> : lo \in LimbsU128, hi \in LimbsU128}

NoResult == [panicked |-> FALSE, val |-> <<>>]
NoFrame == [ovf |-> FALSE]

Init ==
    /\ overflow_checks \in BOOLEAN
    /\ \/ ty = "u64" /\ a \in AllU64 /\ b \in AllU64 /\ c \in BoundaryU64
       \/ ty = "u128" /\ a \in SampleU128 /\ b \in SampleU128 /\ c \in SampleU128
       \/ ty = "U256" /\ a \in SampleU256 /\ b \in SampleU256 /\ c \in SampleU256
    /\ called = "none"
    /\ result = NoResult
    /\ frame = NoFrame

\* let _ = f(a, b, c): with overflow checks an overflowing plain operation
\* panics and unwinds the frame, otherwise the call returns r.ret.
Call(f, r) ==
    /\ called' = f
    /\ result' = IF overflow_checks /\ r.ovf
                 THEN [panicked |-> TRUE, val |-> <<>>]
                 ELSE [panicked |-> FALSE, val |-> r.ret]
    /\ frame' = IF overflow_checks /\ r.ovf THEN [ovf |-> TRUE] ELSE r
    /\ UNCHANGED <<overflow_checks, ty, a, b, c>>

Bench_compiler_optimized_multiply_add ==
    /\ ty = "u64"
    /\ Call("compiler_optimized_multiply_add", compiler_optimized_multiply_add(a, b, c))

Bench_karatsuba_multiply_add ==
    /\ ty = "u64"
    /\ Call("karatsuba_multiply_add", karatsuba_multiply_add(a, b, c))

Bench_compiler_optimized_multiply_add_128 ==
    /\ ty = "u128"
    /\ Call("compiler_optimized_multiply_add_128", compiler_optimized_multiply_add_128(a, b, c))

Bench_karatsuba_multiply_add_128 ==
    /\ ty = "u128"
    /\ Call("karatsuba_multiply_add_128", karatsuba_multiply_add_128(a, b, c))

Bench_compiler_optimized_multiply_add_256 ==
    /\ ty = "U256"
    /\ Call("compiler_optimized_multiply_add_256", compiler_optimized_multiply_add_256(a, b, c))

Bench_karatsuba_multiply_add_256 ==
    /\ ty = "U256"
    /\ Call("karatsuba_multiply_add_256", karatsuba_multiply_add_256(a, b, c))

Next ==
    \/ Bench_compiler_optimized_multiply_add
    \/ Bench_karatsuba_multiply_add
    \/ Bench_compiler_optimized_multiply_add_128
    \/ Bench_karatsuba_multiply_add_128
    \/ Bench_compiler_optimized_multiply_add_256
    \/ Bench_karatsuba_multiply_add_256

Spec == Init /\ [][Next]_vars

----------------------------------------------------------------------------
(* Properties.                                                             *)

\* C1: karatsuba_multiply_add(a, b, c) returns the same 128-bit value as
\* compiler_optimized_multiply_add(a, b, c) for every u64 a, b, c.
C1_KaratsubaEqualsSchoolbook64 ==
    called = "karatsuba_multiply_add" =>
        /\ ~result.panicked
        /\ result.val = compiler_optimized_multiply_add(a, b, c).ret

\* C2: compiler_optimized_multiply_add(a, b, c) is the mathematical integer
\* a*b+c, which is below 2^128, so neither the multiplication nor the
\* addition overflows (the call returns under either build profile).
C2_Schoolbook64Exact ==
    called = "compiler_optimized_multiply_add" =>
        /\ a * b + c < Pow128
        /\ ~frame.ovf
        /\ ~result.panicked
        /\ result.val = a * b + c

\* C2 witness: the largest operands, whose result 2^128 - 2^64 needs all 128 bits.
C2_Witness ==
    /\ called = "compiler_optimized_multiply_add"
    /\ a = Pow64 - 1 /\ b = Pow64 - 1 /\ c = Pow64 - 1
    /\ result.val = Pow128 - Pow64

\* C3: compiler_optimized_multiply_add_128(a, b, c) returns (low, high) with
\* low + high*2^128 = a*b+c.  Stated for the calls in which no plain
\* operation overflows, so that the build profile plays no part.
C3_Schoolbook128Exact ==
    (called = "compiler_optimized_multiply_add_128" /\ ~frame.ovf) =>
        result.val[1] + result.val[2] * Pow128 = a * b + c

\* C4: karatsuba_multiply_add_128(x, y, z) returns the same (low, high) pair
\* as compiler_optimized_multiply_add_128(x, y, z).  Stated for the inputs on
\* which neither function overflows a plain operation.
C4_KaratsubaEqualsSchoolbook128 ==
    (/\ called = "karatsuba_multiply_add_128"
     /\ ~frame.ovf
     /\ ~compiler_optimized_multiply_add_128(a, b, c).ovf) =>
        result.val = compiler_optimized_multiply_add_128(a, b, c).ret

\* C5: karatsuba_multiply_add_128(x, y, z) returns (low, high) with
\* low + high*2^128 = x*y+z.  Stated for the calls in which no plain
\* operation overflows.
C5_Karatsuba128Exact ==
    (called = "karatsuba_multiply_add_128" /\ ~frame.ovf) =>
        result.val[1] + result.val[2] * Pow128 = a * b + c

\* C6: compiler_optimized_multiply_add_256(a, b, c) returns U256(low', high')
\* with low' + high'*2^128 = (a*b+c) mod 2^256.  The reference is computed
\* limb-wise: the low limb of a*b+c is (a.0*b.0 + c.0) mod 2^128 and its high
\* limb is (carry of the low limb + a.0*b.1 + a.1*b.0 + c.1) mod 2^128.
C6_Schoolbook256Exact ==
    called = "compiler_optimized_multiply_add_256" =>
        LET lowSum == a[1] * b[1] + c[1]
            refLow == lowSum % Pow128
            refHigh == ((lowSum \div Pow128) + a[1] * b[2] + a[2] * b[1] + c[2]) % Pow128
        IN  /\ ~result.panicked
            /\ result.val = <<refLow, refHigh>>

\* C7: karatsuba_multiply_add_256(x, y, z) returns the same two limbs as
\* compiler_optimized_multiply_add_256(x, y, z).  Stated for the calls in
\* which no plain operation overflows.
C7_KaratsubaEqualsSchoolbook256 ==
    (called = "karatsuba_multiply_add_256" /\ ~frame.ovf) =>
        result.val = compiler_optimized_multiply_add_256(a, b, c).ret

\* C8: every portable multiply-add function is total: no plain +, - or *
\* leaves the range of its type, so the call never aborts.
C8_Total ==
    called # "none" => (~frame.ovf /\ ~result.panicked)

\* C9: in karatsuba_multiply_add the middle term is exact: no plain operation
\* overflows or goes below zero, and z1 = x0*y1 + x1*y0, a value below 2^66.
C9_MiddleTermExact ==
    called = "karatsuba_multiply_add" =>
        LET x0 == a % (2 ^ Bits32)
            x1 == a \div (2 ^ Bits32)
            y0 == b % (2 ^ Bits32)
            y1 == b \div (2 ^ Bits32)
        IN  /\ ~frame.ovf
            /\ ~result.panicked
            /\ frame.z1 = x0 * y1 + x1 * y0
            /\ frame.z1 < 4 * Pow64

\* C9 witness: both half sums reach the 33rd bit and z1 needs more than 64 bits.
C9_Witness ==
    /\ called = "karatsuba_multiply_add"
    /\ frame.x0 + frame.x1 >= 2 ^ Bits32
    /\ frame.y0 + frame.y1 >= 2 ^ Bits32
    /\ frame.z1 >= Pow64
    /\ frame.z1 = frame.x0 * frame.y1 + frame.x1 * frame.y0

\* C10: with overflowing plain operations wrapping (overflow checks off), the
\* low components returned by compiler_optimized_multiply_add_128 and by
\* karatsuba_multiply_add_128 both equal (a*b+c) mod 2^128.
C10_LowHalvesAgree ==
    (/\ ~overflow_checks
     /\ called \in {"compiler_optimized_multiply_add_128", "karatsuba_multiply_add_128"}) =>
        result.val[1] = (a * b + c) % Pow128

\* C10 witness: a Karatsuba call whose middle term wrapped and whose high
\* component differs from the schoolbook one, yet whose low component is right.
C10_Witness ==
    /\ ~overflow_checks
    /\ called = "karatsuba_multiply_add_128"
    /\ frame.ovf
    /\ result.val[1] = (a * b + c) % Pow128
    /\ result.val[2] # compiler_optimized_multiply_add_128(a, b, c).ret[2]

====
